---- MODULE Spec2Model ----
(***************************************************************************)
(* A model of tools/locs.py: counting lines of code before and after       *)
(* preprocessor expansion for the entries of a compilation database.       *)
(*                                                                         *)
(* Strings that the program inspects are sequences of atoms.  A path, a    *)
(* command word and a regular expression are each a sequence of atoms; an  *)
(* atom of a regular expression is a literal or ".*".  A command is a      *)
(* sequence of words (the command string split at whitespace).            *)
(***************************************************************************)
EXTENDS Integers, Sequences, FiniteSets, TLC

VARIABLES
  ARGS,        \* the parsed command line (locs.py:115)
  dbReadable,  \* whether open(compile_commands_file) succeeds (locs.py:295)
  data,        \* the loaded compilation database (locs.py:296)
  pc,          \* position of Main
  exitCode,    \* exit status of the run; -1 while running
  groups,      \* Results.groups: name -> Group (locs.py:221)
  units,       \* Results.units (locs.py:222)
  i,           \* index of the launch loop (locs.py:309)
  processes,   \* launched external processes (locs.py:305)
  completed,   \* the launched processes that have exited, in order of exit
  collected,   \* index of the collection loop (locs.py:330)
  unitProcess, \* for each unit, the process whose output it was built from
  stdout,      \* lines written to standard output
  stderr       \* lines written to standard error

vars == <<ARGS, dbReadable, data, pc, exitCode, groups, units, i, processes,
          completed, collected, unitProcess, stdout, stderr>>

----------------------------------------------------------------------------
(* Bounds *)

MaxEntries == 2

----------------------------------------------------------------------------
(* Generic helpers *)

Range(s) == {s[k] : k \in DOMAIN s}

Min(a, b) == IF a < b THEN a ELSE b

RECURSIVE SumSeq(_)
SumSeq(s) == IF s = <<>> THEN 0 ELSE Head(s) + SumSeq(Tail(s))

SeqsUpTo(S, n) == UNION {[1..k -> S] : k \in 0..n}

Line(kind, payload) == [kind |-> kind, payload |-> payload]

Kinds(lines) == [k \in DOMAIN lines |-> lines[k].kind]

----------------------------------------------------------------------------
(* Regular expressions, as far as the program uses them *)

\* re.match: the pattern must match a prefix of the string.
RECURSIVE Match(_, _)
Match(regexp, s) ==
  IF regexp = <<>> THEN TRUE
  ELSE IF Head(regexp) = ".*"
       THEN \E k \in 0..Len(s) : Match(Tail(regexp), SubSeq(s, k + 1, Len(s)))
       ELSE /\ s # <<>>
            /\ Head(s) = Head(regexp)
            /\ Match(Tail(regexp), Tail(s))

----------------------------------------------------------------------------
(* CompilationData, File, Group *)

\* File.__init__
File(file, loc, expanded) == [file |-> file, loc |-> loc, expanded |-> expanded]

\* Group.__init__
Group(name, regexp_string) ==
  [name |-> name, regexp |-> regexp_string, loc |-> 0, expanded |-> 0, count |-> 0]

\* A slip in Group.account: every unit is accounted, matching or not.
Account_NoMatch(group, unit) ==
  [group EXCEPT !.loc = @ + unit.loc,
                !.expanded = @ + unit.expanded,
                !.count = @ + 1]

\* Group.account
Account(group, unit) ==
  IF Match(group.regexp, unit.file)
  THEN [group EXCEPT !.loc = @ + unit.loc,
                     !.expanded = @ + unit.expanded,
                     !.count = @ + 1]
  ELSE group

----------------------------------------------------------------------------
(* SetupReportGroups *)

default_report_groups ==
  [n \in {"total", "src", "test", "third_party", "gen"} |->
     CASE n = "total" -> <<".*">>
       [] n = "src" -> <<"../../src">>
       [] n = "test" -> <<"../../test">>
       [] n = "third_party" -> <<"../../third_party">>
       [] n = "gen" -> <<"gen">>]

\* dict(pairs): a later pair with the same key wins.
DictOf(pairs) ==
  [n \in {pairs[k][1] : k \in DOMAIN pairs} |->
     LET last == CHOOSE k \in DOMAIN pairs :
                   /\ pairs[k][1] = n
                   /\ \A m \in DOMAIN pairs : pairs[m][1] = n => m <= k
     IN pairs[last][2]]

\* {**a, **b}
Merge(a, b) ==
  [n \in DOMAIN a \cup DOMAIN b |-> IF n \in DOMAIN b THEN b[n] ELSE a[n]]

\* {k: v for (k, v) in d.items() if k in keep}
Restrict(d, keep) == [n \in DOMAIN d \cap keep |-> d[n]]

\* A slip in the --only loop: only the first name is looked up.
OnlyLoop_FirstOnly(report_groups, k) ==
  IF k > Len(ARGS.only) THEN [exit |-> FALSE, groups |-> report_groups]
  ELSE IF ARGS.only[k] \notin DOMAIN report_groups
       THEN [exit |-> TRUE, groups |-> report_groups]
       ELSE [exit |-> FALSE,
             groups |-> Restrict(report_groups, Range(ARGS.only))]

\* The loop over ARGS['only'], from its k-th name on.
RECURSIVE OnlyLoop(_, _)
OnlyLoop(report_groups, k) ==
  IF k > Len(ARGS.only) THEN [exit |-> FALSE, groups |-> report_groups]
  ELSE IF ARGS.only[k] \notin DOMAIN report_groups
       THEN [exit |-> TRUE, groups |-> report_groups]
       ELSE OnlyLoop(Restrict(report_groups, Range(ARGS.only)), k + 1)

\* A slip in the --not filter: nothing is removed.
NotFilter_Keep(report_groups) == report_groups

\* The --not filter.
NotFilter(report_groups) ==
  IF ARGS.not # <<>>
  THEN Restrict(report_groups, DOMAIN report_groups \ Range(ARGS.not))
  ELSE report_groups

MergedGroups == Merge(default_report_groups, DictOf(ARGS.group))

\* The value SetupReportGroups returns, when it returns.
SetupReportGroups ==
  LET report_groups == NotFilter(OnlyLoop(MergedGroups, 1).groups)
  IN [n \in DOMAIN report_groups |-> Group(n, report_groups[n])]

----------------------------------------------------------------------------
(* Results *)

\* Results.track
Track(filename) == \E n \in DOMAIN groups : Match(groups[n].regexp, filename)

\* Results.recordFile: the groups after the unit is accounted.
RecordGroups(unit) == [n \in DOMAIN groups |-> Account(groups[n], unit)]

----------------------------------------------------------------------------
(* CommandSplitter *)

W(a) == <<a>>

\* [^\s]*clang: the word holds "clang".
HasClang(word) == \E k \in DOMAIN word : word[k] = "clang"

\* Words c..o of the command, joined by single blanks.
RECURSIVE Join(_)
Join(words) ==
  IF words = <<>> THEN <<>>
  ELSE IF Len(words) = 1 THEN Head(words)
       ELSE Head(words) \o <<" ">> \o Join(Tail(words))

\* " -c <infile> -o <outfile>" after the word `start`: the pairs (c, o) of
\* positions of "-c" and "-o" with a non-empty infile and outfile between.
DashPairs(command, start) ==
  {co \in (start + 1..Len(command)) \X (start + 1..Len(command)) :
     /\ command[co[1]] = W("-c")
     /\ command[co[2]] = W("-o")
     /\ co[2] >= co[1] + 2
     /\ co[2] < Len(command)}

\* Where the group clangcmd may start: after the optional first word, or,
\* failing that, at the first word.
ClangStarts(command) ==
  {s \in {1, 2} : /\ s <= Len(command)
                  /\ HasClang(command[s])
                  /\ DashPairs(command, s) # {}}

\* cmd_pattern.match(command): the groups, or matched = FALSE for None.
\* Both ".*" before " -c " and before " -o " are greedy.
CmdPatternMatch(command) ==
  IF ClangStarts(command) = {}
  THEN [matched |-> FALSE, clangcmd |-> <<>>, infile |-> <<>>, outfile |-> <<>>]
  ELSE LET start == IF 2 \in ClangStarts(command) THEN 2 ELSE 1
           pairs == DashPairs(command, start)
           c == CHOOSE x \in {co[1] : co \in pairs} :
                  \A y \in {co[1] : co \in pairs} : y <= x
           o == CHOOSE x \in {co[2] : co \in {q \in pairs : q[1] = c}} :
                  \A y \in {co[2] : co \in {q \in pairs : q[1] = c}} : y <= x
       IN [matched |-> TRUE,
           clangcmd |-> Join(SubSeq(command, start, c - 1)),
           infile |-> Join(SubSeq(command, c + 1, o - 1)),
           outfile |-> Join(SubSeq(command, o + 1, Len(command)))]

----------------------------------------------------------------------------
(* The output of an external process: output.split(), then int() *)

Tok(n) == [digits |-> TRUE, val |-> n]
Junk == [digits |-> FALSE, val |-> 0]

\* A slip in the second loop: output that does not parse counts as 0 0.
ParseOutput_Lenient(output) ==
  IF (\E k \in DOMAIN output : ~output[k].digits) \/ Len(output) # 2
  THEN [bad |-> FALSE, expanded |-> 0, loc |-> 0]
  ELSE [bad |-> FALSE, expanded |-> output[1].val, loc |-> output[2].val]

\* expanded, loc = list(map(int, output.split())): bad = TRUE for ValueError.
ParseOutput(output) ==
  IF (\E k \in DOMAIN output : ~output[k].digits) \/ Len(output) # 2
  THEN [bad |-> TRUE, expanded |-> 0, loc |-> 0]
  ELSE [bad |-> FALSE, expanded |-> output[1].val, loc |-> output[2].val]

----------------------------------------------------------------------------
(* Sorting and printing *)

\* The order of str on the atoms the model uses.
AtomOrder ==
  <<" ", "../../src", "../../test", "/a.cc", "/b.cc", "gen">>

AtomRank(a) == CHOOSE k \in DOMAIN AtomOrder : AtomOrder[k] = a

RECURSIVE StrLess(_, _)
StrLess(a, b) ==
  IF b = <<>> THEN FALSE
  ELSE IF a = <<>> THEN TRUE
  ELSE IF Head(a) = Head(b) THEN StrLess(Tail(a), Tail(b))
  ELSE AtomRank(Head(a)) < AtomRank(Head(b))

\* The order of str on the group names the model uses.
NameOrder == <<"gen", "mine", "src", "test", "third_party", "total">>

\* sorted(self.groups.keys())
SortedKeys == SelectSeq(NameOrder, LAMBDA n : n \in DOMAIN groups)

\* key(a) < key(b) for the four keys Main sorts by; CompilationData.ratio is
\* expanded / (loc + 1), compared here by cross-multiplication.
KeyLess(key, a, b) ==
  CASE key = "expanded" -> a.expanded < b.expanded
    [] key = "ratio" -> a.expanded * (b.loc + 1) < b.expanded * (a.loc + 1)
    [] key = "loc" -> a.loc < b.loc
    [] key = "file" -> StrLess(a.file, b.file)

\* x comes strictly before y in the sorted list.
Before(key, reverse, x, y) ==
  IF reverse THEN KeyLess(key, y, x) ELSE KeyLess(key, x, y)

\* x put into the sorted list s behind every element it does not precede.
RECURSIVE Insert(_, _, _, _)
Insert(key, reverse, s, x) ==
  IF s = <<>> THEN <<x>>
  ELSE IF Before(key, reverse, x, Head(s)) THEN <<x>> \o s
       ELSE <<Head(s)>> \o Insert(key, reverse, Tail(s), x)

\* sorted(s, key=key, reverse=reverse): stable in both directions.
RECURSIVE Sorted(_, _, _)
Sorted(key, reverse, s) ==
  IF s = <<>> THEN <<>>
  ELSE Insert(key, reverse,
              Sorted(key, reverse, SubSeq(s, 1, Len(s) - 1)), s[Len(s)])

\* A slip in Results.printSorted: the sort direction is ignored.
PrintSorted_Ascending(key, count, reverse) ==
  LET sorted == Sorted(key, FALSE, units)
  IN SubSeq(sorted, 1, Min(count, Len(sorted)))

\* Results.printSorted, for count >= 1: the units printed, in order.
PrintSorted(key, count, reverse) ==
  LET sorted == Sorted(key, reverse, units)
  IN SubSeq(sorted, 1, Min(count, Len(sorted)))

UnitLines(us) == [k \in DOMAIN us |-> Line("unit", us[k])]

\* LocsEncoder.default on the Results object.
JsonOf(gs, us) ==
  [groups |-> [n \in DOMAIN gs |->
                 [name |-> gs[n].name, loc |-> gs[n].loc,
                  expanded |-> gs[n].expanded]],
   units |-> [k \in DOMAIN us |->
                [file |-> us[k].file, loc |-> us[k].loc,
                 expanded |-> us[k].expanded]]]

\* Results.printGroupResults
GroupLines ==
  [k \in DOMAIN SortedKeys |->
     Line("group", [name |-> groups[SortedKeys[k]].name,
                    count |-> groups[SortedKeys[k]].count,
                    loc |-> groups[SortedKeys[k]].loc,
                    expanded |-> groups[SortedKeys[k]].expanded])]

----------------------------------------------------------------------------
(* The inputs of a run *)

SrcA == <<"../../src", "/a.cc">>
TestB == <<"../../test", "/b.cc">>

Clang == <<"clang", "++">>

\* clang++ -c <infile> -o obj
Compile(infile) == <<Clang, W("-c"), infile, W("-o"), W("obj")>>

\* Commands that are not of the shape cmd_pattern expects.
GccCommand == <<W("gcc"), W("-c"), SrcA, W("-o"), W("obj")>>
LinkCommand == <<Clang, SrcA, W("-o"), W("obj")>>

Out(expanded, loc) == <<Tok(expanded), Tok(loc)>>

\* What the counting command of an entry prints.
GoodOutputs == {Out(2, 1), Out(1, 0)}
BadOutputs == {<<Tok(3)>>, <<Junk, Tok(1)>>}

\* An entry of the database, with what the environment holds for it:
\* whether its resolved input file is a file, and the output of its command.
Entry(file, command, exists, output) ==
  [file |-> file, command |-> command, exists |-> exists, output |-> output]

Entries ==
  {Entry(fc[1], fc[2], TRUE, o) :
     fc \in {<<SrcA, Compile(SrcA)>>,
             <<TestB, <<W("ccache")>> \o Compile(TestB)>>},
     o \in GoodOutputs \cup BadOutputs}
  \cup {Entry(SrcA, Compile(TestB), TRUE, Out(2, 1)),
        Entry(SrcA, Compile(SrcA), FALSE, <<>>),
        Entry(TestB, Compile(TestB), FALSE, <<>>),
        Entry(SrcA, GccCommand, FALSE, <<>>),
        Entry(TestB, LinkCommand, FALSE, <<>>)}

NoArgs ==
  [json |-> FALSE, echocmd |-> FALSE, only |-> <<>>, not |-> <<>>,
   list_groups |-> FALSE, group |-> <<>>, largest |-> 0, worst |-> 0,
   smallest |-> 0, files |-> 0]

----------------------------------------------------------------------------
(* Main *)

out == IF ARGS.json THEN "stderr" ELSE "stdout"

\* print(..., file=f) of the lines ls.
Write(f, ls) ==
  /\ stdout' = IF f = "stdout" THEN stdout \o ls ELSE stdout
  /\ stderr' = IF f = "stderr" THEN stderr \o ls ELSE stderr

\* An uncaught exception: the traceback goes to stderr, the status is 1.
Crash(exception, lines) ==
  /\ pc' = "crash"
  /\ exitCode' = 1
  /\ stdout' = stdout \o lines
  /\ stderr' = Append(stderr, Line("traceback", exception))

\* open(compile_commands_file) raises FileNotFoundError.
LoadFail ==
  /\ pc = "load"
  /\ ~dbReadable
  /\ pc' = "exit"
  /\ exitCode' = 1
  /\ Write("stdout", <<Line("error", "cannot read")>>)
  /\ UNCHANGED <<ARGS, dbReadable, data, groups, units, i, processes,
                 completed, collected, unitProcess>>

\* json.load(file)
Load ==
  /\ pc = "load"
  /\ dbReadable
  /\ pc' = "setup"
  /\ UNCHANGED <<ARGS, dbReadable, data, exitCode, groups, units, i,
                 processes, completed, collected, unitProcess, stdout,
                 stderr>>

\* Results(): SetupReportGroups meets a name of --only that is not defined.
SetupExit ==
  /\ pc = "setup"
  /\ OnlyLoop(MergedGroups, 1).exit
  /\ pc' = "exit"
  /\ exitCode' = 1
  /\ Write("stdout", <<Line("error", "not defined")>>)
  /\ UNCHANGED <<ARGS, dbReadable, data, groups, units, i, processes,
                 completed, collected, unitProcess>>

\* The table --list-groups prints.
ListGroupLines ==
  IF ARGS.list_groups
  THEN LET names == SelectSeq(NameOrder,
                              LAMBDA n : n \in DOMAIN SetupReportGroups)
       IN <<Line("listgroups", "Category")>>
          \o [k \in DOMAIN names |-> Line("listgroups", names[k])]
  ELSE <<>>

\* Results(): SetupReportGroups returns the active groups.
Setup ==
  /\ pc = "setup"
  /\ ~OnlyLoop(MergedGroups, 1).exit
  /\ groups' = SetupReportGroups
  /\ units' = <<>>
  /\ Write("stdout", ListGroupLines)
  /\ pc' = "launch"
  /\ i' = 1
  /\ UNCHANGED <<ARGS, dbReadable, data, exitCode, processes, completed,
                 collected, unitProcess>>

\* status.print of the first loop: to stdout, and not under --json.
CountingLine == IF ARGS.json THEN <<>> ELSE <<Line("status", "Counting")>>

\* A slip in the launch loop: the check infile.is_file() is dropped.
IsFile_Always(entry) == TRUE

\* infile.is_file()
IsFile(entry) == entry.exists

\* An entry no active group tracks is passed over.
TrackSkip ==
  /\ pc = "launch"
  /\ i <= Len(data)
  /\ ~Track(data[i].file)
  /\ i' = i + 1
  /\ UNCHANGED <<ARGS, dbReadable, data, pc, exitCode, groups, units,
                 processes, completed, collected, unitProcess, stdout,
                 stderr>>

\* cmd_splitter.process: cmd is None, cmd.group raises AttributeError.
LaunchCrash ==
  /\ pc = "launch"
  /\ i <= Len(data)
  /\ Track(data[i].file)
  /\ ~CmdPatternMatch(data[i].command).matched
  /\ Crash("AttributeError", CountingLine)
  /\ UNCHANGED <<ARGS, dbReadable, data, groups, units, i, processes,
                 completed, collected, unitProcess>>

\* The input file of a tracked entry is not a file: nothing is launched.
LaunchMissing ==
  /\ pc = "launch"
  /\ i <= Len(data)
  /\ Track(data[i].file)
  /\ CmdPatternMatch(data[i].command).matched
  /\ ~IsFile(data[i])
  /\ Write("stdout", CountingLine)
  /\ i' = i + 1
  /\ UNCHANGED <<ARGS, dbReadable, data, pc, exitCode, groups, units,
                 processes, completed, collected, unitProcess>>

\* subprocess.Popen of the counting command of a tracked entry.
Launch ==
  /\ pc = "launch"
  /\ i <= Len(data)
  /\ Track(data[i].file)
  /\ CmdPatternMatch(data[i].command).matched
  /\ IsFile(data[i])
  /\ Write("stdout",
           CountingLine
           \o (IF ARGS.echocmd THEN <<Line("echocmd", i)>> ELSE <<>>))
  /\ processes' = Append(processes,
                         [process |-> i,
                          infile |-> CmdPatternMatch(data[i].command).infile])
  /\ i' = i + 1
  /\ UNCHANGED <<ARGS, dbReadable, data, pc, exitCode, groups, units,
                 completed, collected, unitProcess>>

\* The first loop has seen every entry.
EndLaunch ==
  /\ pc = "launch"
  /\ i > Len(data)
  /\ pc' = "collect"
  /\ collected' = 0
  /\ UNCHANGED <<ARGS, dbReadable, data, exitCode, groups, units, i,
                 processes, completed, unitProcess, stdout, stderr>>

\* A launched process writes its output and exits.
Complete(p) ==
  /\ pc \in {"launch", "collect"}
  /\ p \in DOMAIN processes
  /\ p \notin Range(completed)
  /\ completed' = Append(completed, p)
  /\ UNCHANGED <<ARGS, dbReadable, data, pc, exitCode, groups, units, i,
                 processes, collected, unitProcess, stdout, stderr>>

\* A slip in the second loop: the processes are taken as they exit.
NextToCollect_Completed ==
  IF Len(completed) > collected THEN completed[collected + 1]
  ELSE collected + 1

\* The process the second loop waits for: the next in launch order.
NextToCollect == collected + 1

\* What p['process'].communicate() returns.
Communicate(p) == data[processes[p].process].output

SummingLine == <<Line("status", "Summing up")>>

\* A slip in Results.recordFile: the unit is accounted but not kept.
RecordUnits_Dropped(unit) == units

\* Results.recordFile: the units after the unit is appended.
RecordUnits(unit) == Append(units, unit)

\* p['process'].communicate() returns two integers: result.recordFile.
Collect ==
  /\ pc = "collect"
  /\ collected < Len(processes)
  /\ LET p == NextToCollect
         parsed == ParseOutput(Communicate(p))
         unit == File(processes[p].infile, parsed.loc, parsed.expanded)
     IN /\ p \in Range(completed)
        /\ ~parsed.bad
        /\ units' = RecordUnits(unit)
        /\ groups' = RecordGroups(unit)
        /\ unitProcess' = Append(unitProcess, p)
  /\ Write(out, SummingLine)
  /\ collected' = collected + 1
  /\ UNCHANGED <<ARGS, dbReadable, data, pc, exitCode, i, processes,
                 completed>>

\* p['process'].communicate() returns something else: ValueError.
CollectCrash ==
  /\ pc = "collect"
  /\ collected < Len(processes)
  /\ NextToCollect \in Range(completed)
  /\ ParseOutput(Communicate(NextToCollect)).bad
  /\ pc' = "crash"
  /\ exitCode' = 1
  /\ stdout' = IF out = "stdout" THEN stdout \o SummingLine ELSE stdout
  /\ stderr' = (IF out = "stderr" THEN stderr \o SummingLine ELSE stderr)
               \o <<Line("traceback", "ValueError")>>
  /\ UNCHANGED <<ARGS, dbReadable, data, groups, units, i, processes,
                 completed, collected, unitProcess>>

\* The lines among ls that go to `stream` when printed with file=f.
To(stream, f, ls) == IF f = stream THEN ls ELSE <<>>

\* A top-N section: its header is printed without file=out, its body with.
Section(stream, option, title, key, reverse) ==
  IF ARGS[option] # 0
  THEN To(stream, "stdout", <<Line("header", title)>>)
       \o To(stream, out, UnitLines(PrintSorted(key, ARGS[option], reverse)))
  ELSE <<>>

\* What Main prints to `stream` after the second loop, in order.
ReportLines(stream) ==
  To(stream, "stdout",
     IF ARGS.json THEN <<Line("json", JsonOf(groups, units))>> ELSE <<>>)
  \o To(stream, out, <<Line("summary", Len(processes))>>)
  \o To(stream, out, GroupLines)
  \o Section(stream, "largest", "Largest", "expanded", TRUE)
  \o Section(stream, "worst", "Worst", "ratio", TRUE)
  \o Section(stream, "smallest", "Smallest", "loc", FALSE)
  \o Section(stream, "files", "List", "file", FALSE)

\* The second loop has collected every process: the reports, and return 0.
Report ==
  /\ pc = "collect"
  /\ collected = Len(processes)
  /\ stdout' = stdout \o ReportLines("stdout")
  /\ stderr' = stderr \o ReportLines("stderr")
  /\ pc' = "done"
  /\ exitCode' = 0
  /\ UNCHANGED <<ARGS, dbReadable, data, groups, units, i, processes,
                 completed, collected, unitProcess>>

Next ==
  \/ LoadFail
  \/ Load
  \/ SetupExit
  \/ Setup
  \/ TrackSkip
  \/ LaunchCrash
  \/ LaunchMissing
  \/ Launch
  \/ EndLaunch
  \/ \E p \in DOMAIN processes : Complete(p)
  \/ Collect
  \/ CollectCrash
  \/ Report

\* The state before Main runs.
InitRun ==
  /\ pc = "load"
  /\ exitCode = -1
  /\ groups = <<>>
  /\ units = <<>>
  /\ i = 0
  /\ processes = <<>>
  /\ completed = <<>>
  /\ collected = 0
  /\ unitProcess = <<>>
  /\ stdout = <<>>
  /\ stderr = <<>>

\* The command lines of the runs.
Configs ==
  {[only |-> <<>>, not |-> <<>>, group |-> <<>>],
   [only |-> <<"src">>, not |-> <<>>, group |-> <<>>],
   [only |-> <<>>, not |-> <<"total">>, group |-> <<<<"mine", SrcA>>>>],
   [only |-> <<"bogus">>, not |-> <<>>, group |-> <<>>]}

Options ==
  {[echocmd |-> FALSE, largest |-> 0, worst |-> 0, smallest |-> 0, files |-> 0],
   [echocmd |-> TRUE, largest |-> 1, worst |-> 0, smallest |-> 0, files |-> 0],
   [echocmd |-> FALSE, largest |-> 2, worst |-> 1, smallest |-> 1, files |-> 2]}

WithArgs(j, l, c, o) ==
  [json |-> j, echocmd |-> o.echocmd, only |-> c.only, not |-> c.not,
   list_groups |-> l, group |-> c.group, largest |-> o.largest,
   worst |-> o.worst, smallest |-> o.smallest, files |-> o.files]

Databases == SeqsUpTo(Entries, MaxEntries)

\* Every group configuration with no listing asked for, and every choice
\* of listings, with and without --json, over the default groups.
CommandLines ==
  {WithArgs(FALSE, FALSE, c, CHOOSE o \in Options : o.largest = 0) :
     c \in Configs}
  \cup {WithArgs(j, FALSE, CHOOSE c \in Configs : c = [only |-> <<>>, not |-> <<>>, group |-> <<>>], o) :
          j \in BOOLEAN, o \in Options}

Init ==
  /\ ARGS \in CommandLines
  /\ \/ dbReadable = TRUE /\ data \in Databases
     \/ dbReadable = FALSE /\ data = <<>>
  /\ InitRun

Spec == Init /\ [][Next]_vars

----------------------------------------------------------------------------
(* Runs that vary the group options over a few fixed databases *)

MaxOnly == 2

OnlyNames == {"src", "total", "mine", "bogus"}

AllConfigs ==
  [only : SeqsUpTo(OnlyNames, MaxOnly),
   not : {<<>>, <<"total">>, <<"src">>, <<"src", "mine">>},
   group : {<<>>, <<<<"mine", SrcA>>>>,
            <<<<"total", <<"gen">>>>, <<"mine", <<"../../test">>>>>>}]

FewDatabases ==
  {<<Entry(SrcA, Compile(SrcA), TRUE, Out(2, 1)),
     Entry(TestB, Compile(TestB), TRUE, Out(1, 0))>>,
   <<Entry(SrcA, Compile(SrcA), FALSE, <<>>),
     Entry(SrcA, Compile(SrcA), TRUE, <<Tok(3)>>)>>,
   <<Entry(SrcA, GccCommand, FALSE, <<>>)>>}

InitConfig ==
  /\ ARGS \in {WithArgs(j, l, c, CHOOSE o \in Options : o.largest = 0) :
                 j \in BOOLEAN, l \in BOOLEAN, c \in AllConfigs}
  /\ \/ dbReadable = TRUE /\ data \in FewDatabases
     \/ dbReadable = FALSE /\ data = <<>>
  /\ InitRun

SpecConfig == InitConfig /\ [][Next]_vars

----------------------------------------------------------------------------
(* Runs that vary the sizes of the units and the N of --largest *)

MaxSortEntries == 3

MaxLargest == 2

\* The sizes of the scenario of the top-N listings, and a tie.
SortOutputs == {Out(50, 10), Out(40, 20), Out(5, 5), Out(8, 8)}

SortEntries == {Entry(SrcA, Compile(SrcA), TRUE, o) : o \in SortOutputs}

InitSorted ==
  /\ \/ /\ ARGS \in {[NoArgs EXCEPT !.json = j, !.largest = n] :
                       j \in BOOLEAN, n \in 1..MaxLargest}
        /\ dbReadable = TRUE
        /\ data \in SeqsUpTo(SortEntries, MaxSortEntries) \cup FewDatabases
     \/ /\ ARGS \in {[NoArgs EXCEPT !.only = o] : o \in {<<"test">>, <<"bogus">>}}
        /\ \/ dbReadable = TRUE /\ data \in FewDatabases
           \/ dbReadable = FALSE /\ data = <<>>
  /\ InitRun

SpecSorted == InitSorted /\ [][Next]_vars

----------------------------------------------------------------------------
(* Vocabulary of the properties *)

AllLines == stdout \o stderr

LinesOf(lines, kind) == SelectSeq(lines, LAMBDA l : l.kind = kind)

ReportKinds == {"summary", "group", "header", "unit", "json"}

NoReport == \A k \in DOMAIN AllLines : AllLines[k].kind \notin ReportKinds

Started == pc \in {"launch", "collect", "done", "crash"}

Matching(regexp) == SelectSeq(units, LAMBDA u : Match(regexp, u.file))

TwoIntegers(output) ==
  Len(output) = 2 /\ \A k \in DOMAIN output : output[k].digits

\* The entries the first loop launches a process for.
Launchable ==
  {k \in DOMAIN data : Track(data[k].file) /\ data[k].exists}

----------------------------------------------------------------------------
(* C1 *)

\* C1: after any sequence of recordFile calls every active group's loc,
\* expanded and count are the sum of rawLines, the sum of expandedLines and
\* the number of exactly the recorded units whose path its pattern matches.
C1_GroupTotals ==
  \A n \in DOMAIN groups :
    LET m == Matching(groups[n].regexp)
    IN /\ groups[n].loc = SumSeq([k \in DOMAIN m |-> m[k].loc])
       /\ groups[n].expanded = SumSeq([k \in DOMAIN m |-> m[k].expanded])
       /\ groups[n].count = Len(m)

\* Two units recorded: one group counts both, one counts one, one none.
C1_Witness ==
  /\ Len(units) = 2
  /\ \E a, b, c \in DOMAIN groups :
       groups[a].count = 2 /\ groups[b].count = 1 /\ groups[c].count = 0

----------------------------------------------------------------------------
(* C2 *)

\* C2: every recorded unit is counted by at least one active group, and by
\* "total" whenever that group is active; an entry whose file matches no
\* active group never produces a unit.
C2_EveryUnitCounted ==
  /\ \A k \in DOMAIN units :
       \E n \in DOMAIN groups : Match(groups[n].regexp, units[k].file)
  /\ "total" \in DOMAIN groups => groups["total"].count = Len(units)
  /\ \A p \in DOMAIN processes : Track(data[processes[p].process].file)

----------------------------------------------------------------------------
(* C3 *)

UnknownOnly ==
  \E k \in DOMAIN ARGS.only : ARGS.only[k] \notin DOMAIN MergedGroups

\* C3: if --only holds a name that is no defined group, at any position,
\* the run ends with exit code 1 before any file is processed: no process is
\* launched, no unit recorded, no report or JSON written.
C3_UnknownOnlyExits ==
  UnknownOnly =>
    /\ pc \in {"load", "setup", "exit"}
    /\ pc = "setup" => ENABLED SetupExit /\ ~ENABLED Setup
    /\ pc = "exit" => exitCode = 1
    /\ processes = <<>> /\ units = <<>> /\ DOMAIN groups = {}
    /\ NoReport
    /\ \A k \in DOMAIN AllLines : AllLines[k].kind = "error"

\* The run has ended on a list whose first name is defined, its second not.
C3_Witness ==
  /\ pc = "exit"
  /\ dbReadable
  /\ Len(ARGS.only) = 2
  /\ ARGS.only[1] \in DOMAIN MergedGroups
  /\ ARGS.only[2] \notin DOMAIN MergedGroups

----------------------------------------------------------------------------
(* C4 *)

UserNames == {ARGS.group[k][1] : k \in DOMAIN ARGS.group}

ExpectedActive ==
  LET defined == DOMAIN default_report_groups \cup UserNames
      restricted == IF ARGS.only # <<>> THEN defined \cap Range(ARGS.only)
                    ELSE defined
  IN restricted \ Range(ARGS.not)

ExpectedPattern(n) ==
  IF n \in UserNames
  THEN ARGS.group[CHOOSE k \in DOMAIN ARGS.group :
                    /\ ARGS.group[k][1] = n
                    /\ \A m \in DOMAIN ARGS.group :
                         ARGS.group[m][1] = n => m <= k][2]
  ELSE default_report_groups[n]

GroupLineNames(lines) ==
  {LinesOf(lines, "group")[k].payload.name :
     k \in DOMAIN LinesOf(lines, "group")}

\* C4: the active groups are the default groups merged with the --group
\* pairs, restricted to the --only names when there are any, less the --not
\* names; a --not name is in no per-group report line and no JSON groups map.
C4_ActiveGroups ==
  Started =>
    /\ DOMAIN groups = ExpectedActive
    /\ \A n \in DOMAIN groups :
         groups[n].name = n /\ groups[n].regexp = ExpectedPattern(n)
    /\ GroupLineNames(AllLines) \cap Range(ARGS.not) = {}
    /\ \A k \in DOMAIN LinesOf(stdout, "json") :
         DOMAIN LinesOf(stdout, "json")[k].payload.groups = ExpectedActive
    /\ pc = "done" => GroupLineNames(AllLines) = ExpectedActive

\* A finished run with a defined group named in both --only and --not.
C4_Witness ==
  /\ pc = "done"
  /\ ExpectedActive # {}
  /\ \E n \in Range(ARGS.only) \cap Range(ARGS.not) : n \in DOMAIN MergedGroups
  /\ GroupLineNames(AllLines) # {}

----------------------------------------------------------------------------
(* C5 *)

\* C5: under --json, whatever the other options, everything written to
\* standard output is the single JSON object.
C5_JsonStdoutClean ==
  (ARGS.json /\ pc = "done") => Kinds(stdout) = <<"json">>

----------------------------------------------------------------------------
(* C6 *)

LastLine(lines) == lines[Len(lines)]

\* C6: a tracked entry whose input file does not exist launches no process,
\* produces no unit and does not fail the run: the other entries are still
\* processed.
C6_MissingInputSkipped ==
  /\ \A p \in DOMAIN processes : data[processes[p].process].exists
  /\ \A k \in DOMAIN unitProcess :
       /\ unitProcess[k] \in DOMAIN processes
       /\ data[processes[unitProcess[k]].process].exists
  /\ Len(units) = Len(unitProcess)
  /\ pc = "crash" =>
       \/ /\ LastLine(stderr).payload = "AttributeError"
          /\ ~CmdPatternMatch(data[i].command).matched
       \/ /\ LastLine(stderr).payload = "ValueError"
          /\ data[processes[collected + 1].process].exists
          /\ ~TwoIntegers(data[processes[collected + 1].process].output)
  /\ pc \in {"collect", "done"} =>
       \A k \in Launchable : \E p \in DOMAIN processes : processes[p].process = k

\* A finished run whose database has a tracked entry without input file
\* ahead of an entry that was counted.
C6_Witness ==
  /\ pc = "done"
  /\ \E k, m \in DOMAIN data :
       /\ k < m
       /\ Track(data[k].file)
       /\ CmdPatternMatch(data[k].command).matched
       /\ ~data[k].exists
       /\ \E u \in DOMAIN unitProcess : processes[unitProcess[u]].process = m

----------------------------------------------------------------------------
(* C7 *)

\* C7: on normal completion the result of every launched process is used
\* exactly once: there are as many units, and as many elements of the JSON
\* units array, as launched processes, which are the tracked entries whose
\* input file exists; the keys of the JSON groups map are the active groups.
C7_EachResultOnce ==
  pc = "done" =>
    /\ Len(units) = Len(processes)
    /\ Len(processes) = Cardinality(Launchable)
    /\ Len(unitProcess) = Len(processes)
    /\ \A p \in DOMAIN processes :
         Cardinality({k \in DOMAIN unitProcess : unitProcess[k] = p}) = 1
    /\ \A k \in DOMAIN units :
         /\ units[k].expanded = data[processes[unitProcess[k]].process].output[1].val
         /\ units[k].loc = data[processes[unitProcess[k]].process].output[2].val
    /\ ARGS.json =>
         /\ Len(LinesOf(stdout, "json")) = 1
         /\ Len(LinesOf(stdout, "json")[1].payload.units) = Len(processes)
         /\ DOMAIN LinesOf(stdout, "json")[1].payload.groups = DOMAIN SetupReportGroups

\* A finished --json run that launched two processes.
C7_Witness ==
  /\ pc = "done"
  /\ ARGS.json
  /\ Len(processes) = 2
  /\ LinesOf(stdout, "json") # <<>>

----------------------------------------------------------------------------
(* C8 *)

\* The payloads of the run of unit lines that follows line h.
RunAfter(lines, h) ==
  LET m == CHOOSE n \in 0..(Len(lines) - h) :
             /\ \A k \in (h + 1)..(h + n) : lines[k].kind = "unit"
             /\ h + n < Len(lines) => lines[h + n + 1].kind # "unit"
  IN [k \in 1..m |-> lines[h + k].payload]

\* The units listed for --largest: behind the header on stdout, or, under
\* --json with no other listing asked for, the unit lines on stderr.
LargestListed ==
  IF ARGS.json
  THEN [k \in DOMAIN LinesOf(stderr, "unit") |->
          LinesOf(stderr, "unit")[k].payload]
  ELSE RunAfter(stdout,
                CHOOSE h \in DOMAIN stdout :
                  stdout[h].kind = "header" /\ stdout[h].payload = "Largest")

\* C8: for N >= 1, --largest N lists min(N, number of units) units, those of
\* the greatest expandedLines, in non-increasing order of expandedLines.
C8_LargestListing ==
  (/\ pc = "done"
   /\ ARGS.largest >= 1
   /\ ARGS.json => ARGS.worst = 0 /\ ARGS.smallest = 0 /\ ARGS.files = 0)
  => LET L == LargestListed
     IN /\ Len(L) = Min(ARGS.largest, Len(units))
        /\ \A k \in 1..(Len(L) - 1) : L[k].expanded >= L[k + 1].expanded
        /\ \E f \in [DOMAIN L -> DOMAIN units] :
             /\ \A a, b \in DOMAIN L : a # b => f[a] # f[b]
             /\ \A k \in DOMAIN L : units[f[k]] = L[k]
             /\ \A j \in DOMAIN units \ Range(f) :
                  \A k \in DOMAIN L : units[j].expanded <= L[k].expanded

\* --largest 2 over three units recorded in increasing order of size.
C8_Witness ==
  /\ pc = "done"
  /\ ARGS.largest = 2
  /\ Len(units) = 3
  /\ units[1].expanded < units[2].expanded
  /\ units[2].expanded < units[3].expanded

----------------------------------------------------------------------------
(* C9 *)

\* The position of process p in the order of exit.
ExitRank(p) == CHOOSE k \in DOMAIN completed : completed[k] = p

\* C9, as stated: the units are in the order in which the processes exit:
\* of two processes the unit of the one that exits first is appended first.
C9_CompletionOrder ==
  \A a, b \in DOMAIN unitProcess :
    ExitRank(unitProcess[a]) < ExitRank(unitProcess[b]) => a < b

\* C9, amended: the units are in launch order, whatever the order in which
\* the processes exit: the k-th unit is built from the k-th launched process.
C9_LaunchOrder ==
  /\ Len(units) = Len(unitProcess)
  /\ \A k \in DOMAIN unitProcess :
       /\ unitProcess[k] = k
       /\ units[k].file = processes[k].infile
       /\ units[k].expanded = data[processes[k].process].output[1].val

\* Two units recorded, the second process having exited first.
C9_Witness ==
  /\ Len(units) = 2
  /\ completed = <<2, 1>>
  /\ units[1] # units[2]

----------------------------------------------------------------------------
(* C10 *)

\* A tracked entry's command is not of the expected shape, or the output of
\* a process to launch is not two integers.
FatalInput ==
  \E k \in DOMAIN data :
    /\ Track(data[k].file)
    /\ \/ ~CmdPatternMatch(data[k].command).matched
       \/ data[k].exists /\ ~TwoIntegers(data[k].output)

Failed == \E k \in DOMAIN stderr : stderr[k].kind = "traceback"

\* C10: a parse error is fatal with no partial report: with such an entry
\* the run never completes and writes no summary line, per-group line, top-N
\* section or JSON object, however many entries were processed before it.
C10_NoPartialReport ==
  /\ FatalInput => pc # "done" /\ NoReport
  /\ Failed => pc = "crash" /\ exitCode = 1 /\ NoReport
  /\ (pc = "collect" /\ FatalInput) => ~ENABLED Report

\* The run has failed on the output of a process after recording a unit.
C10_Witness ==
  /\ pc = "crash"
  /\ LastLine(stderr).payload = "ValueError"
  /\ Len(units) >= 1

====
